---- MODULE Spec2Model ----
(***************************************************************************)
(* Query wrapper over a rendered component tree (ReactMountWrapper), its   *)
(* structural comparator (contains/index.js) and its tree traversal        *)
(* (contains/RSTTraversal.js).                                             *)
(*                                                                         *)
(* JavaScript values are records tagged by k.  Objects that have identity  *)
(* (elements, rendered instances, plain objects) carry a ref or a path, so *)
(* that record equality is the === of the code.                            *)
(***************************************************************************)
EXTENDS Integers, Sequences, FiniteSets, TLC

VARIABLES
  pc,        \* "ready" | "done" for a call of a pure function, "wrapper" otherwise
  call,      \* the pure function called and its arguments
  res,       \* what that call returned
  mounted,   \* the root element as currently rendered
  rootWrapper, \* the wrapper mountWrapper returned
  w,         \* the wrapper the test holds
  lastCall,  \* the last wrapper method called and its outcome
  renderer   \* the mount renderer's closure state

vars == <<pc, call, res, mounted, rootWrapper, w, lastCall, renderer>>

(***************************************************************************)
(* Bounds of the model.                                                    *)
(***************************************************************************)
MaxKids == 3      \* longest children array handed to childrenToSimplifiedArray
MaxCmpKids == 2   \* longest children array of a comparand of nodeEqual/nodeMatches
MaxTreeKids == 2  \* most children of the root of a tree handed to a traversal

(***************************************************************************)
(* JavaScript values.                                                      *)
(***************************************************************************)
Undef == [k |-> "undefined"]
Null == [k |-> "null"]
False == [k |-> "boolean", b |-> FALSE]
True == [k |-> "boolean", b |-> TRUE]
Str(s) == [k |-> "string", s |-> s]
Num(n) == [k |-> "number", n |-> n]
Arr(items) == [k |-> "array", items |-> items]
Obj(ref, shape) == [k |-> "object", ref |-> ref, shape |-> shape]
Fun(name) == [k |-> "function", name |-> name]
Elem(ref, type, props) == [k |-> "element", ref |-> ref, type |-> type, props |-> props]

NoProps == [key \in {} |-> Undef]
Props1(k1, v1) == [key \in {k1} |-> v1]
Props2(k1, v1, k2, v2) == [key \in {k1, k2} |-> IF key = k1 THEN v1 ELSE v2]
WithProp(p, k1, v1) == [key \in DOMAIN p \cup {k1} |-> IF key = k1 THEN v1 ELSE p[key]]
Merge(p, q) == [key \in DOMAIN p \cup DOMAIN q |-> IF key \in DOMAIN q THEN q[key] ELSE p[key]]

\* !v
Falsy(v) == v \in {Undef, Null, False, Str(""), Num(0)}

\* v.type: undefined on everything that is not an element or a rendered instance
NoType == "<undefined>"
TypeOf(v) == IF v.k \in {"element", "inst"} THEN v.type ELSE NoType

\* typeof v === 'object'
TypeofObject(v) == v.k \in {"null", "object", "array", "element", "inst"}

\* Object.prototype, which `prop in obj` and obj[prop] reach on a plain object
ObjectPrototype == [constructor |-> Fun("Object")]
In(prop, obj) == prop \in DOMAIN obj \/ prop \in DOMAIN ObjectPrototype
Get(obj, prop) ==
  IF prop \in DOMAIN obj THEN obj[prop]
  ELSE IF prop \in DOMAIN ObjectPrototype THEN ObjectPrototype[prop]
  ELSE Undef

\* lodash isEqual on the prop values of the model: deep equality, identity ignored
isEqual(x, y) ==
  LET content(v) == IF v.k = "object" THEN [k |-> "object", shape |-> v.shape] ELSE v
  IN content(x) = content(y)

\* x + y on textual operands
ToText(v) == IF v.k = "string" THEN v.s ELSE ToString(v.n)
Plus(x, y) ==
  IF x.k = "number" /\ y.k = "number" THEN Num(x.n + y.n)
  ELSE Str(ToText(x) \o ToText(y))

B2N(b) == IF b THEN 1 ELSE 0
Front(s) == SubSeq(s, 1, Len(s) - 1)

(***************************************************************************)
(* common/index.js                                                         *)
(***************************************************************************)
propsOfNode(node) ==
  LET p == IF node.k \in {"element", "inst"} THEN node.props ELSE NoProps
  IN [key \in {x \in DOMAIN p : p[x] # Undef} |-> p[key]]

(***************************************************************************)
(* contains/index.js                                                       *)
(***************************************************************************)
\* the length comparators: object-is (the default) and (a, b) => a <= b
LenIs == "is"
LenLE == "le"
\* variant: the loose comparator compares the key counts for equality
ApplyLenComp_equalOnly(lenComp, x, y) == x = y
ApplyLenComp(lenComp, x, y) == IF lenComp = LenIs THEN x = y ELSE x <= y

RECURSIVE internalNodeCompare(_, _, _, _)

nodeEqual(a, b, lenComp) == internalNodeCompare(a, b, lenComp, FALSE)

nodeMatches(a, b, lenComp) == internalNodeCompare(a, b, lenComp, TRUE)

\* a and b are the two fresh arrays childrenToSimplifiedArray returned
internalChildrenCompare(a, b, lenComp, isLoose) ==
  /\ Len(a) = Len(b)
  /\ \A i \in 1..Len(a) :
       IF isLoose THEN nodeMatches(a[i], b[i], lenComp)
       ELSE nodeEqual(a[i], b[i], lenComp)

childrenMatch(a, b, lenComp) == internalChildrenCompare(a, b, lenComp, TRUE)

childrenEqual(a, b, lenComp) == internalChildrenCompare(a, b, lenComp, FALSE)

childrenToArray(children) ==
  LET keep(el) == el # Null /\ el # False /\ el # Undef
  IN IF children.k = "array" THEN SelectSeq(children.items, keep)
     ELSE IF keep(children) THEN <<children>> ELSE <<>>

\* variant: only strings count as text
isTextualNode_stringsOnly(node) == node.k = "string"
isTextualNode(node) == node.k \in {"string", "number"}

\* variant: a text child is merged with its right neighbour only, not with the
\* run merged so far
RECURSIVE SimplifyFrom_pairwise(_, _)
SimplifyFrom_pairwise(childrenArray, simplifiedArray) ==
  IF childrenArray = <<>> THEN simplifiedArray
  ELSE IF /\ Len(childrenArray) >= 2
          /\ isTextualNode(childrenArray[1])
          /\ isTextualNode(childrenArray[2])
       THEN SimplifyFrom_pairwise(Tail(Tail(childrenArray)),
              Append(simplifiedArray, Plus(childrenArray[1], childrenArray[2])))
       ELSE SimplifyFrom_pairwise(Tail(childrenArray),
              Append(simplifiedArray, Head(childrenArray)))

RECURSIVE SimplifyFrom(_, _)
SimplifyFrom(childrenArray, simplifiedArray) ==
  IF childrenArray = <<>> THEN simplifiedArray
  ELSE LET child == Head(childrenArray)
           rest == Tail(childrenArray)
       IN IF simplifiedArray = <<>> THEN SimplifyFrom(rest, <<child>>)
          ELSE LET previousChild == simplifiedArray[Len(simplifiedArray)]
               IN IF isTextualNode(child) /\ isTextualNode(previousChild)
                  THEN SimplifyFrom(rest,
                         Append(Front(simplifiedArray), Plus(previousChild, child)))
                  ELSE SimplifyFrom(rest, Append(simplifiedArray, child))

childrenToSimplifiedArray(nodeChildren) ==
  SimplifyFrom(childrenToArray(nodeChildren), <<>>)

\* variant: nothing is stripped
removeNullary_keepAll(p) == p

removeNullary(p) ==
  [key \in {x \in DOMAIN p : p[x] # Null /\ p[x] # Undef} |-> p[key]]

internalNodeCompare(a, b, lenComp, isLoose) ==
  IF a = b THEN TRUE
  ELSE IF Falsy(a) \/ Falsy(b) THEN FALSE
  ELSE IF TypeOf(a) # TypeOf(b) THEN FALSE
  ELSE
    LET left == IF isLoose THEN removeNullary(propsOfNode(a)) ELSE propsOfNode(a)
        right == IF isLoose THEN removeNullary(propsOfNode(b)) ELSE propsOfNode(b)
        leftKeys == DOMAIN left
        propOk(prop) ==
          \/ prop = "children"
          \/ /\ In(prop, right)
             /\ \/ Get(right, prop) = left[prop]
                \/ /\ TypeofObject(Get(right, prop))
                   /\ TypeofObject(left[prop])
                   /\ isEqual(left[prop], Get(right, prop))
        leftHasChildren == In("children", left)
        rightHasChildren == In("children", right)
        childrenOk ==
          (leftHasChildren \/ rightHasChildren) =>
            LET l == childrenToSimplifiedArray(Get(left, "children"))
                r == childrenToSimplifiedArray(Get(right, "children"))
            IN IF isLoose THEN childrenMatch(l, r, lenComp)
               ELSE childrenEqual(l, r, lenComp)
    IN IF ~(\A prop \in leftKeys : propOk(prop)) THEN FALSE
       ELSE IF ~childrenOk THEN FALSE
       ELSE IF ~isTextualNode(a)
            THEN ApplyLenComp(lenComp,
                   Cardinality(leftKeys) - B2N(leftHasChildren),
                   Cardinality(DOMAIN right) - B2N(rightHasChildren))
            ELSE FALSE

\* the match function handed to containsChildrenSubArray: nodeEqual or
\* nodeMatches, called with two arguments
ApplyMatch(match, x, y) ==
  IF match = "nodeEqual" THEN nodeEqual(x, y, LenIs) ELSE nodeMatches(x, y, LenIs)

\* variant: the lengths are not compared
arraysEqual_anyLength(match, left, right) ==
  \A i \in 1..Len(left) : i <= Len(right) /\ ApplyMatch(match, left[i], right[i])

arraysEqual(match, left, right) ==
  /\ Len(left) = Len(right)
  /\ \A i \in 1..Len(left) : ApplyMatch(match, left[i], right[i])

\* kids.slice(i, i + n) for i >= 0 and n >= 0
SliceFrom(kids, i, n) ==
  SubSeq(kids, i + 1, IF i + n <= Len(kids) THEN i + n ELSE Len(kids))

\* node.children.some((_, i) => arraysEqual(match, children.slice(i, i + n), subArray))
\* on a rendered instance
containsChildrenSubArray(match, node, subArray) ==
  \E i \in 0..(Len(node.children) - 1) :
    arraysEqual(match, SliceFrom(node.children, i, Len(subArray)), subArray)

(***************************************************************************)
(* Rendered tree.  A rendered instance (ReactTestInstance) carries its     *)
(* type, its props and its rendered children; a text child is a leaf that  *)
(* is the text itself.  The path from the root identifies the instance.    *)
(***************************************************************************)
Inst(path, type, props, children) ==
  [k |-> "inst", path |-> path, type |-> type, props |-> props, children |-> children]

\* the children an element renders: nested arrays flattened, null, undefined
\* and booleans render nothing
RECURSIVE RenderableChildren(_)
RenderableChildren(items) ==
  IF items = <<>> THEN <<>>
  ELSE LET h == Head(items)
       IN (IF h.k = "array" THEN RenderableChildren(h.items)
           ELSE IF h.k \in {"null", "undefined", "boolean"} THEN <<>>
           ELSE <<h>>) \o RenderableChildren(Tail(items))

RECURSIVE Render(_, _)
Render(el, path) ==
  LET kids == RenderableChildren(
                <<IF "children" \in DOMAIN el.props THEN el.props.children ELSE Undef>>)
  IN Inst(path, el.type, el.props,
          [i \in 1..Len(kids) |->
             IF kids[i].k = "element" THEN Render(kids[i], Append(path, i))
             ELSE kids[i]])

(***************************************************************************)
(* contains/RSTTraversal.js                                                *)
(***************************************************************************)
\* tree.children: a TypeError on null and undefined, undefined on every
\* other value that is not a rendered instance
HasChildrenArray(tree) == tree.k = "inst"

\* the nodes fn is called with, in order, and whether the walk threw
RECURSIVE treeForEach(_)
RECURSIVE treeForEachChildren(_, _)
treeForEachChildren(children, done) ==
  IF children = <<>> THEN done
  ELSE LET r == treeForEach(Head(children))
           sofar == [calls |-> done.calls \o r.calls, thrown |-> r.thrown]
       IN IF r.thrown THEN sofar
          ELSE treeForEachChildren(Tail(children), sofar)

treeForEach(tree) ==
  LET visited == IF tree # Null /\ tree # False /\ tree # Undef
                 THEN <<tree>> ELSE <<>>
  IN IF ~HasChildrenArray(tree) THEN [calls |-> visited, thrown |-> TRUE]
     ELSE treeForEachChildren(tree.children, [calls |-> visited, thrown |-> FALSE])

\* a predicate handed to a traversal or a filter: what it is and how it
\* answers on a node
RECURSIVE Call(_, _)
Call(fn, node) ==
  CASE fn.k = "nodeEqualTo" -> nodeEqual(fn.arg, node, LenIs)
    [] fn.k = "nodeMatching" -> nodeMatches(fn.arg, node, fn.lenComp)
    [] fn.k = "any" -> TRUE
    [] fn.k = "none" -> FALSE
    [] fn.k = "text" -> isTextualNode(node)
    [] fn.k = "tag" -> TypeOf(node) = fn.tag
    [] fn.k = "hasProps" ->
         /\ node.k = "inst"
         /\ \A key \in DOMAIN fn.props :
              key \in DOMAIN node.props /\ node.props[key] = fn.props[key]
    [] fn.k = "not" -> ~Call(fn.of, node)

treeFilter(tree, fn) ==
  LET r == treeForEach(tree)
      test(node) == Call(fn, node)
  IN [thrown |-> r.thrown,
      results |-> IF r.thrown THEN <<>> ELSE SelectSeq(r.calls, test)]

(***************************************************************************)
(* Inputs of the pure functions.                                           *)
(***************************************************************************)
Absent == [k |-> "absent"]
MkProps(f) == [key \in {x \in DOMAIN f : f[x] # Absent} |-> f[key]]
SeqsUpTo(S, n) == UNION {[1..m -> S] : m \in 0..n}

\* two child elements: <b/> and <b title="x"/>
B1 == Elem(11, "b", NoProps)
B2 == Elem(12, "b", Props1("title", Str("x")))

CmpPropMaps ==
  {MkProps([title |-> t, constructor |-> c]) :
     t \in {Absent, Str("x"), Str("y"), Null, Undef, Obj(1, "s"), Obj(2, "s")},
     c \in {Absent, Fun("Object")}}

CmpKidAtoms == {Str("a"), True, Null, B1, B2}

Comparands ==
  {Elem(1, t, p) : t \in {"div", "Foo"}, p \in CmpPropMaps}
  \cup {Elem(1, "div", WithProp(p, "children", c)) :
          p \in {NoProps, Props1("title", Str("x"))},
          c \in {Arr(s) : s \in SeqsUpTo(CmpKidAtoms, MaxCmpKids)}
                \cup {Str("a"), Null, B1}}
  \cup {Str("a"), Str("b"), Str(""), Num(1), Num(0), Null, Undef}

\* the same value held by another object
Reref(v) == IF v.k = "element" THEN [v EXCEPT !.ref = 2] ELSE v

CompareCalls ==
  {[fn |-> f[1], a |-> x, b |-> y, lenComp |-> f[2]] :
     f \in {<<"nodeEqual", LenIs>>, <<"nodeMatches", LenIs>>, <<"nodeMatches", LenLE>>},
     x \in Comparands, y \in {Reref(c) : c \in Comparands}}
  \cup {[fn |-> "nodeEqual", a |-> x, b |-> x, lenComp |-> LenIs] : x \in Comparands}

SimplifyAtoms ==
  {Str("a"), Str(""), Num(1), Num(2), Null, False, Undef, B1}

SimplifyCalls ==
  {[fn |-> "childrenToSimplifiedArray", c |-> v] :
     v \in {Arr(s) : s \in SeqsUpTo(SimplifyAtoms, MaxKids)} \cup SimplifyAtoms}

NoRes == [k |-> "none"]
WrapperIdle ==
  /\ mounted = Undef
  /\ rootWrapper = Undef
  /\ w = Undef
  /\ lastCall = Undef
  /\ renderer = Undef
wrapperVars == <<mounted, rootWrapper, w, lastCall, renderer>>

(***************************************************************************)
(* Specification of the comparator: nodeEqual and nodeMatches applied to   *)
(* every pair of comparands.                                               *)
(***************************************************************************)
InitCompare ==
  /\ pc = "ready"
  /\ call \in CompareCalls
  /\ res = NoRes
  /\ WrapperIdle

NodeEqualCall ==
  /\ pc = "ready"
  /\ call.fn = "nodeEqual"
  /\ res' = [ret |-> nodeEqual(call.a, call.b, call.lenComp)]
  /\ pc' = "done"
  /\ UNCHANGED <<call, wrapperVars>>

NodeMatchesCall ==
  /\ pc = "ready"
  /\ call.fn = "nodeMatches"
  /\ res' = [ret |-> nodeMatches(call.a, call.b, call.lenComp)]
  /\ pc' = "done"
  /\ UNCHANGED <<call, wrapperVars>>

NextCompare == NodeEqualCall \/ NodeMatchesCall

SpecCompare == InitCompare /\ [][NextCompare]_vars

(***************************************************************************)
(* Specification of the children normalisation.                            *)
(***************************************************************************)
InitChildren ==
  /\ pc = "ready"
  /\ call \in SimplifyCalls
  /\ res = NoRes
  /\ WrapperIdle

SimplifyCall ==
  /\ pc = "ready"
  /\ call.fn = "childrenToSimplifiedArray"
  /\ res' = [ret |-> childrenToSimplifiedArray(call.c)]
  /\ pc' = "done"
  /\ UNCHANGED <<call, wrapperVars>>

NextChildren == SimplifyCall

SpecChildren == InitChildren /\ [][NextChildren]_vars

(***************************************************************************)
(* Properties of the comparator (under SpecCompare).                       *)
(***************************************************************************)
EqualCallDone == pc = "done" /\ call.fn = "nodeEqual"
MatchesCallDone == pc = "done" /\ call.fn = "nodeMatches"

\* C2: nodeEqual(a, a) is true for every a, and nodeEqual is symmetric:
\* nodeEqual(a, b) = nodeEqual(b, a) for all comparands a and b.
C2_NodeEqualReflexiveSymmetric ==
  EqualCallDone =>
    /\ nodeEqual(call.a, call.a, LenIs)
    /\ res.ret = nodeEqual(call.b, call.a, LenIs)

\* b is a with one more prop, whose value is neither null nor undefined
ExtraProp(a, b) ==
  /\ a.k = "element" /\ b.k = "element"
  /\ a.type = b.type
  /\ \E key \in DOMAIN b.props \ (DOMAIN a.props \cup {"children"}) :
       /\ b.props[key] \notin {Null, Undef}
       /\ b.props = WithProp(a.props, key, b.props[key])

\* C3: nodeMatches is not symmetric: under the length comparator a <= b, when b
\* is a with one more non-null prop, nodeMatches(a, b) is true and
\* nodeMatches(b, a) is false.
C3_NodeMatchesAsymmetric ==
  (MatchesCallDone /\ call.lenComp = LenLE /\ ExtraProp(call.a, call.b)) =>
    /\ res.ret = TRUE
    /\ ~nodeMatches(call.b, call.a, LenLE)

C3_Witness ==
  /\ MatchesCallDone /\ call.lenComp = LenLE /\ ExtraProp(call.a, call.b)
  /\ "children" \in DOMAIN call.a.props
  /\ res.ret = TRUE
  /\ ~nodeMatches(call.b, call.a, LenLE)

\* the element with one more prop whose value is null, and the element
\* without a prop whose value is null
NullKeys == {"title", "extra", "constructor", "children"}
AddNull(v, prop) ==
  IF v.k = "element" /\ prop \notin DOMAIN v.props
  THEN [v EXCEPT !.props = WithProp(@, prop, Null)] ELSE v
DropNull(v, prop) ==
  IF v.k = "element" /\ prop \in DOMAIN v.props /\ v.props[prop] = Null
  THEN [v EXCEPT !.props = [x \in DOMAIN @ \ {prop} |-> @[x]]] ELSE v

LooseIgnoresNull(props) ==
  MatchesCallDone =>
    \A prop \in props :
      /\ res.ret = nodeMatches(AddNull(call.a, prop), call.b, call.lenComp)
      /\ res.ret = nodeMatches(call.a, AddNull(call.b, prop), call.lenComp)
      /\ res.ret = nodeMatches(DropNull(call.a, prop), call.b, call.lenComp)
      /\ res.ret = nodeMatches(call.a, DropNull(call.b, prop), call.lenComp)

StrictSeesNull(props) ==
  (EqualCallDone /\ call.a.k = "element") =>
    \A prop \in props \ DOMAIN call.a.props :
      /\ ~nodeEqual(AddNull(call.a, prop), Reref(call.a), LenIs)
      /\ ~nodeEqual(Reref(call.a), AddNull(call.a, prop), LenIs)

\* C20 (as stated): in loose mode a prop whose value is null or undefined
\* counts as absent on both sides, so nodeMatches keeps its result when a
\* null-valued prop is added or removed, while nodeEqual tells a node with an
\* explicit null prop from the same node without it.
C20_NullPropLooseOnly == LooseIgnoresNull(NullKeys) /\ StrictSeesNull(NullKeys)

\* C20 (amended): the same, where for nodeEqual the prop is not children: a
\* null children prop is compared as no children in both modes.
C20_NullPropLooseOnlyButChildren ==
  LooseIgnoresNull(NullKeys) /\ StrictSeesNull(NullKeys \ {"children"})

C20_Witness ==
  /\ MatchesCallDone
  /\ call.a.k = "element"
  /\ "title" \in DOMAIN call.a.props
  /\ call.a.props.title = Null
  /\ call.b.k = "element"
  /\ "title" \notin DOMAIN call.b.props
  /\ res.ret = TRUE
  /\ ~nodeEqual(call.a, call.b, LenIs)

(***************************************************************************)
(* Properties of the children normalisation (under SpecChildren).          *)
(***************************************************************************)
SimplifyDone == pc = "done" /\ call.fn = "childrenToSimplifiedArray"

\* C4: childrenToSimplifiedArray is idempotent: applied to its own result it
\* returns that result.
C4_SimplifyIdempotent ==
  SimplifyDone => childrenToSimplifiedArray(Arr(res.ret)) = res.ret

\* a call that merged a run of three text children
C4_Witness ==
  /\ SimplifyDone
  /\ call.c.k = "array"
  /\ Len(call.c.items) = 3
  /\ \A i \in 1..3 : isTextualNode(call.c.items[i])
  /\ Len(res.ret) = 1
  /\ childrenToSimplifiedArray(Arr(res.ret)) = res.ret

(***************************************************************************)
(* Specification of the traversal: treeForEach and treeFilter applied to   *)
(* rendered trees, to text leaves and to null, false and undefined.        *)
(***************************************************************************)
SpanHi == Elem(21, "span", Props1("children", Str("Hi")))
SpanBye == Elem(22, "span", Props1("children", Str("Bye")))
Span == Elem(23, "span", NoProps)
DivOf(kids) == Elem(20, "div", Props1("children", Arr(kids)))

TraverseTrees ==
  {Render(DivOf(s), <<>>) :
     s \in SeqsUpTo({Str("Hi"), Num(1), SpanHi, B1, B2}, MaxTreeKids)}

TraverseInputs == TraverseTrees \cup {Null, False, Undef, Str("Hi"), Num(1)}

TraversePredicates ==
  {[k |-> "any"], [k |-> "text"], [k |-> "tag", tag |-> "b"],
   [k |-> "hasProps", props |-> Props1("title", Str("x"))]}

TraverseCalls ==
  {[fn |-> "treeForEach", tree |-> t] : t \in TraverseInputs}
  \cup {[fn |-> "treeFilter", tree |-> t, predicate |-> q] :
          t \in TraverseInputs, q \in TraversePredicates}

InitTraverse ==
  /\ pc = "ready"
  /\ call \in TraverseCalls
  /\ res = NoRes
  /\ WrapperIdle

TreeForEachCall ==
  /\ pc = "ready"
  /\ call.fn = "treeForEach"
  /\ res' = [ret |-> treeForEach(call.tree)]
  /\ pc' = "done"
  /\ UNCHANGED <<call, wrapperVars>>

TreeFilterCall ==
  /\ pc = "ready"
  /\ call.fn = "treeFilter"
  /\ res' = [ret |-> treeFilter(call.tree, call.predicate)]
  /\ pc' = "done"
  /\ UNCHANGED <<call, wrapperVars>>

NextTraverse == TreeForEachCall \/ TreeFilterCall

SpecTraverse == InitTraverse /\ [][NextTraverse]_vars

(***************************************************************************)
(* Properties of the traversal (under SpecTraverse).                       *)
(***************************************************************************)
\* the nodes of a subtree in pre-order: the node, then the subtrees of its
\* children from left to right; a text or number leaf is a node of its own
RECURSIVE PreOrder(_)
RECURSIVE PreOrderAll(_)
PreOrderAll(nodes) ==
  IF nodes = <<>> THEN <<>> ELSE PreOrder(Head(nodes)) \o PreOrderAll(Tail(nodes))
PreOrder(node) ==
  <<node>> \o (IF node.k = "inst" THEN PreOrderAll(node.children) ELSE <<>>)

Satisfying(nodes, fn) ==
  LET test(node) == Call(fn, node) IN SelectSeq(nodes, test)

\* C9: treeForEach(node, visit) is a no-op when node is null, false or
\* undefined: visit is never called and no error is raised.
C9_TreeForEachNoOpOnNullish ==
  (pc = "done" /\ call.fn = "treeForEach" /\ call.tree \in {Null, False, Undef}) =>
    /\ res.ret.calls = <<>>
    /\ ~res.ret.thrown

\* C10: treeFilter(node, predicate) returns exactly the nodes of the subtree
\* rooted at node that satisfy predicate, text and number leaves included, each
\* once, in pre-order.
C10_TreeFilterPreOrder ==
  (pc = "done" /\ call.fn = "treeFilter" /\ call.tree.k = "inst") =>
    /\ ~res.ret.thrown
    /\ res.ret.results = Satisfying(PreOrder(call.tree), call.predicate)

(***************************************************************************)
(* The mounted tree.  mountWrapper renders the root element with the DOM   *)
(* renderer inside a WrapperComponent and reads the tree back through      *)
(* ReactTestInstance: a host element whose only child is one text or       *)
(* number has its text set directly and gets no text leaf; every other     *)
(* text child is a leaf.  The component Foo renders a div that receives    *)
(* Foo's title and holds one span.                                         *)
(***************************************************************************)
FooRender(props) ==
  Elem(30, "div", Props2("title", Get(props, "title"), "children", Span))

RECURSIVE RenderDOM(_, _)
RenderDOM(el, path) ==
  IF el.type = "Foo"
  THEN Inst(path, el.type, el.props, <<RenderDOM(FooRender(el.props), Append(path, 1))>>)
  ELSE LET c == IF "children" \in DOMAIN el.props THEN el.props.children ELSE Undef
           kids == IF isTextualNode(c) THEN <<>> ELSE RenderableChildren(<<c>>)
       IN Inst(path, el.type, el.props,
               [i \in 1..Len(kids) |->
                  IF kids[i].k = "element" THEN RenderDOM(kids[i], Append(path, i))
                  ELSE kids[i]])

\* the instance of the WrapperComponent the renderer created
RootRef(id) == [k |-> "component", of |-> "WrapperComponent", id |-> id]

\* Every fresh render builds a new tree of fibers: the path of a node starts
\* with the number of the render that built its tree.  The node of the
\* WrapperComponent of tree g is at <<0, g>>, the root element's node at <<g>>.
RootPath(g) == <<0, g>>
ArgPath == <<-1>>
IsRootPath(path) == Len(path) = 2 /\ Head(path) = 0
GenOf(path) == IF IsRootPath(path) THEN path[2] ELSE Head(path)

\* the tree number g: the mounted one, or one that was torn down, whose
\* fibers keep what they last held
TreeOf(m, g) == IF g = m.gen THEN m ELSE m.past[g]

\* the ReactTestInstance of the WrapperComponent; its props hold the context
\* the tree was rendered with
RootInstance(t) ==
  Inst(RootPath(t.gen), "WrapperComponent", Props1("context", t.optContext),
       <<RenderDOM(t.el, <<t.gen>>)>>)

RECURSIVE Descend(_, _)
Descend(node, path) ==
  IF path = <<>> THEN node
  ELSE IF node.k = "inst" /\ Head(path) \in 1..Len(node.children)
       THEN Descend(node.children[Head(path)], Tail(path))
       ELSE Undef

NodeAt(m, path) ==
  LET t == TreeOf(m, GenOf(path))
  IN IF IsRootPath(path) THEN RootInstance(t)
     ELSE Descend(RenderDOM(t.el, <<t.gen>>), Tail(path))

\* instance.parent: null above the WrapperComponent, undefined on a text leaf
ParentOf(m, node) ==
  IF node.k # "inst" THEN Undef
  ELSE IF IsRootPath(node.path) THEN Null
  ELSE IF Len(node.path) = 1 THEN RootInstance(TreeOf(m, GenOf(node.path)))
  ELSE NodeAt(m, Front(node.path))

\* instance.instance: the component instance, or the DOM node of a host
InstanceOf(m, node) ==
  IF node.k # "inst" THEN Undef
  ELSE IF IsRootPath(node.path) THEN TreeOf(m, GenOf(node.path)).rootRef
  ELSE IF node.type = "Foo" THEN [k |-> "component", of |-> "Foo", path |-> node.path]
  ELSE [k |-> "domnode", path |-> node.path]

\* what a call does: it returns a value or throws
Ok(v) == [err |-> "none", ret |-> v]
Throw(e) == [err |-> e, ret |-> Undef]
Bool(b) == IF b THEN True ELSE False
At0(s, index) == IF index \in 0..(Len(s) - 1) THEN s[index + 1] ELSE Undef
Nullish(v) == v \in {Undef, Null}

(***************************************************************************)
(* ReactMountWrapper                                                       *)
(***************************************************************************)
RendererRef == [k |-> "renderer"]

ReactMountWrapper(instances, rootRef, rootElement, rdr) ==
  [k |-> "wrapper", instances |-> instances, rootRef |-> rootRef,
   rootElement |-> rootElement, renderer |-> rdr, length |-> Len(instances)]

\* wrap passes this.rootNode, a field the constructor never sets
wrap(this, instances) ==
  ReactMountWrapper(instances, this.rootRef, Undef, this.renderer)

RECURSIVE flatMap(_)
flatMap(arrays) ==
  IF arrays = <<>> THEN <<>> ELSE Head(arrays) \o flatMap(Tail(arrays))

compact(array) == LET truthy(v) == ~Falsy(v) IN SelectSeq(array, truthy)

\* variant: the predicate is not applied
filterWhereUnwrapped_unfiltered(instances, predicate) == compact(instances)

filterWhereUnwrapped(instances, predicate) ==
  LET test(node) == Call(predicate, node)
  IN compact(SelectSeq(instances, test))

findWhereUnwrapped(instances, predicate) ==
  LET found == [i \in 1..Len(instances) |-> treeFilter(instances[i], predicate)]
  IN IF \E i \in 1..Len(instances) : found[i].thrown THEN Throw("TypeError")
     ELSE Ok(flatMap([i \in 1..Len(instances) |-> found[i].results]))

isRoot(m, this) ==
  LET first == At0(this.instances, 0)
      parent == ParentOf(m, first)
  IN IF Falsy(first) THEN Ok(first)
     ELSE IF Nullish(parent) THEN Throw("TypeError")
     ELSE Ok(Bool(InstanceOf(m, parent) = this.rootRef))

at(this, index) == Ok(wrap(this, <<At0(this.instances, index)>>))
first(this) == at(this, 0)
last(this) == at(this, this.length - 1)

\* selectors: a type name, or an object of props the node must carry
Hash(map) == [k |-> "hash", of |-> map]
buildPredicate(selector) ==
  IF selector.k = "string" THEN [k |-> "tag", tag |-> selector.s]
  ELSE [k |-> "hasProps", props |-> selector.of]

filter(this, selector) ==
  Ok(wrap(this, filterWhereUnwrapped(this.instances, buildPredicate(selector))))

children(this, selector) ==
  IF \E i \in 1..this.length : this.instances[i].k # "inst" THEN Throw("TypeError")
  ELSE LET childWrapper ==
             wrap(this, flatMap([i \in 1..this.length |-> this.instances[i].children]))
       IN IF selector # Undef THEN filter(childWrapper, selector) ELSE Ok(childWrapper)

parent(this, m) ==
  IF \E i \in 1..this.length : Nullish(this.instances[i]) THEN Throw("TypeError")
  ELSE Ok(wrap(this, [i \in 1..this.length |-> ParentOf(m, this.instances[i])]))

single(this, out) ==
  IF this.length # 1 THEN Throw("SingleNodeRequiredError") ELSE out

props(this) ==
  LET node == At0(this.instances, 0)
  IN single(this, IF Nullish(node) THEN Throw("TypeError")
                  ELSE IF node.k = "inst" THEN Ok(Hash(node.props))
                  ELSE Ok(Undef))

prop(this, propName) ==
  LET r == props(this)
  IN IF r.err # "none" THEN r
     ELSE IF r.ret = Undef THEN Throw("TypeError")
     ELSE Ok(Get(r.ret.of, propName))

instance(this, m) ==
  LET node == At0(this.instances, 0)
  IN single(this, IF Nullish(node) THEN Throw("TypeError")
                  ELSE Ok(InstanceOf(m, node)))

type(this) ==
  LET node == At0(this.instances, 0)
  IN single(this, IF Nullish(node) THEN Throw("TypeError")
                  ELSE IF node.k = "inst" THEN Ok(Str(node.type))
                  ELSE Ok(Undef))

\* instance._fiber.key; no element of the trees carries a key
key(this) ==
  LET node == At0(this.instances, 0)
  IN single(this, IF node.k # "inst" THEN Throw("TypeError") ELSE Ok(Null))

\* type.displayName || type.name || type
name(this) ==
  LET node == At0(this.instances, 0)
  IN single(this, IF node.k # "inst" THEN Throw("TypeError") ELSE Ok(Str(node.type)))

\* the state and the context a component instance or a DOM node answers with
StateOf(m, inst) ==
  IF inst.k = "component" /\ inst.of = "Foo"
  THEN TreeOf(m, GenOf(inst.path)).state ELSE Undef
ContextOf(m, inst) ==
  IF inst.k = "component" /\ inst.of = "Foo"
  THEN (IF TreeOf(m, GenOf(inst.path)).context = Undef THEN Hash(NoProps)
        ELSE TreeOf(m, GenOf(inst.path)).context)
  ELSE Undef

Named(hash, propName) ==
  IF propName = Undef THEN Ok(hash)
  ELSE IF Nullish(hash) THEN Throw("TypeError")
  ELSE Ok(Get(hash.of, propName.s))

state(this, m, propName) ==
  LET r == isRoot(m, this)
      i == instance(this, m)
  IN IF r.err # "none" THEN r
     ELSE IF Falsy(r.ret) THEN Throw("RootRequiredError")
     ELSE IF i.err # "none" THEN i
     ELSE IF Nullish(i.ret) THEN Throw("TypeError")
     ELSE Named(StateOf(m, i.ret), propName)

context(this, m, propName) ==
  LET r == isRoot(m, this)
      i == instance(this, m)
  IN IF r.err # "none" THEN r
     ELSE IF Falsy(r.ret) THEN Throw("RootRequiredError")
     ELSE IF i.err # "none" THEN i
     ELSE IF i.ret = Null THEN Throw("InstanceRequiredError")
     ELSE IF i.ret = Undef THEN Throw("TypeError")
     ELSE Named(ContextOf(m, i.ret), propName)

\* the element rendered by the test renderer inside a WrapperComponent
elementToInstance(element) ==
  Inst(ArgPath, "WrapperComponent", NoProps, <<Render(element, Append(ArgPath, 1))>>)

contains(this, node) ==
  LET argInstance == elementToInstance(node)
      r == findWhereUnwrapped(this.instances,
                              [k |-> "nodeEqualTo", arg |-> argInstance.children[1]])
  IN IF r.err # "none" THEN r ELSE Ok(Bool(Len(r.ret) > 0))

containsMatchingElement(this, node) ==
  LET argInstance == elementToInstance(node)
      r == findWhereUnwrapped(this.instances,
                              [k |-> "nodeMatching", arg |-> argInstance.children[1],
                               lenComp |-> LenLE])
  IN IF r.err # "none" THEN r ELSE Ok(Bool(Len(r.ret) > 0))

\* whether a component instance is the mounted one: setState on an unmounted
\* component does nothing
Live(m, rootRef) == m.live /\ rootRef = m.rootRef

\* instances.slice(begin, end) for begin >= 0 and end >= 0 or omitted
ArraySlice(array, begin, end) ==
  LET stop == IF end = Undef \/ end.n > Len(array) THEN Len(array) ELSE end.n
  IN [i \in 1..(IF stop > begin THEN stop - begin ELSE 0) |-> array[begin + i]]

slice(this, begin, end) == Ok(wrap(this, ArraySlice(this.instances, begin, end)))

\* not returns what filterWhereUnwrapped returns: an array, not a wrapper
not(this, selector) ==
  Ok(Arr(filterWhereUnwrapped(this.instances,
                              [k |-> "not", of |-> buildPredicate(selector)])))

hostNodes(this) ==
  IF \E i \in 1..this.length : Nullish(this.instances[i]) THEN Throw("TypeError")
  ELSE LET host(node) == node.k = "inst" /\ node.type # "Foo"
                         /\ node.type # "WrapperComponent"
       IN Ok(wrap(this, SelectSeq(this.instances, host)))

is(this, selector) ==
  single(this, Ok(Bool(Call(buildPredicate(selector), At0(this.instances, 0)))))

\* parentsOfInstance: the parents met on the way up, until a parent's instance
\* is rootRef; reading the parent of null or undefined is a TypeError
RECURSIVE parentsOfInstance(_, _, _, _)
parentsOfInstance(m, rootRef, node, found) ==
  IF Nullish(node) THEN Throw("TypeError")
  ELSE LET up == ParentOf(m, node)
       IN IF ~Falsy(up) /\ InstanceOf(m, up) = rootRef THEN Ok(Arr(found))
          ELSE parentsOfInstance(m, rootRef, up, Append(found, up))

parents(this, m, selector) ==
  LET r == single(this, parentsOfInstance(m, this.rootRef, At0(this.instances, 0), <<>>))
  IN IF r.err # "none" THEN r
     ELSE IF selector # Undef THEN filter(wrap(this, r.ret.items), selector)
     ELSE Ok(wrap(this, r.ret.items))

closest(this, m, selector) ==
  LET matches == is(this, selector)
      ancestors == parents(this, m, Undef)
  IN IF matches.err # "none" THEN matches
     ELSE IF matches.ret = True THEN Ok(this)
     ELSE IF ancestors.err # "none" THEN ancestors
     ELSE first(filter(ancestors.ret, selector).ret)

childAt(this, index) ==
  LET kids == children(this, Undef)
  IN single(this, IF kids.err # "none" THEN kids ELSE at(kids.ret, index))

\* some() refuses the root wrapper
some(this, m, selector) ==
  LET r == isRoot(m, this)
  IN IF r.err # "none" THEN r
     ELSE IF ~Falsy(r.ret) THEN Throw("RootForbiddenError")
     ELSE Ok(Bool(\E i \in 1..this.length :
                    Call(buildPredicate(selector), this.instances[i])))

every(this, selector) ==
  Ok(Bool(\A i \in 1..this.length : Call(buildPredicate(selector), this.instances[i])))

\* a function of the test that is handed a wrapper: it asks the wrapper for
\* its type, or answers true
CallOnWrapper(fn, wrapper) ==
  IF fn.k = "typeIs"
  THEN LET t == type(wrapper)
       IN IF t.err # "none" THEN t ELSE Ok(Bool(t.ret = Str(fn.tag)))
  ELSE Ok(True)

filterWhere(this, predicate) ==
  LET accepted(node) == CallOnWrapper(predicate, wrap(this, <<node>>)) = Ok(True)
  IN IF \E i \in 1..this.length :
          CallOnWrapper(predicate, wrap(this, <<this.instances[i]>>)).err # "none"
     THEN Throw("TypeError")
     ELSE Ok(wrap(this, SelectSeq(this.instances, accepted)))

\* instance.findAll(predicate): the rendered instances of the subtree, the
\* instance itself first, that the predicate accepts; text leaves are skipped
findAll(this, node, predicate) ==
  LET rendered(n) == n.k = "inst"
      accepted(n) == CallOnWrapper(predicate, wrap(this, <<n>>)) = Ok(True)
  IN SelectSeq(SelectSeq(PreOrder(node), rendered), accepted)

findWhere(this, predicate) ==
  IF \E i \in 1..this.length : this.instances[i].k # "inst" THEN Throw("TypeError")
  ELSE Ok(wrap(this, flatMap([i \in 1..this.length |->
                               findAll(this, this.instances[i], predicate)])))

\* node => this.containsMatchingElement(node) on every element of nodes
matchingAnswers(this, nodes) ==
  [i \in 1..Len(nodes) |-> containsMatchingElement(this, nodes[i])]
\* the elements at which Array.every / Array.some stop: the callback threw
\* or gave the deciding answer
StopsAt(answers, deciding) ==
  {i \in 1..Len(answers) : answers[i].err # "none" \/ answers[i].ret = deciding}
FirstOf(stops) == CHOOSE i \in stops : \A j \in stops : i <= j
ArrayEvery(answers) ==
  IF StopsAt(answers, False) = {} THEN Ok(True)
  ELSE answers[FirstOf(StopsAt(answers, False))]
ArraySome(answers) ==
  IF StopsAt(answers, True) = {} THEN Ok(False)
  ELSE answers[FirstOf(StopsAt(answers, True))]

\* nodes.every(node => this.containsMatchingElement(node))
everyMatching(this, nodes) == ArrayEvery(matchingAnswers(this, nodes))
\* nodes.some(node => this.containsMatchingElement(node))
someMatching(this, nodes) == ArraySome(matchingAnswers(this, nodes))

containsAllMatchingElements(this, nodes) ==
  IF nodes.k # "array" THEN Throw("InvalidArgumentError")
  ELSE everyMatching(this, nodes.items)

containsAnyMatchingElements(this, nodes) ==
  IF nodes.k # "array" THEN Ok(False) ELSE someMatching(this, nodes.items)

\* WrapperComponent.setChildProps: merges into the props and the context it
\* holds and renders again
setChildProps(m, rootRef, newProps, newContext) ==
  IF ~Live(m, rootRef) THEN m
  ELSE [m EXCEPT !.el = [@ EXCEPT !.props = Merge(@, newProps)],
                 !.context = Hash(Merge(IF @ = Undef THEN NoProps ELSE @.of, newContext)),
                 !.renders = @ + 1]

\* the outcome of a root-only method and the mounted tree it leaves
Left(out, m) == [out |-> out, m |-> m]

\* variant: the callback is looked at after the props were set
setProps_lateCheck(this, m, newProps, callback) ==
  LET r == isRoot(m, this)
  IN IF r.err # "none" THEN Left(r, m)
     ELSE IF Falsy(r.ret) THEN Left(Throw("RootRequiredError"), m)
     ELSE IF callback # Undef /\ callback.k # "function"
          THEN Left(Throw("InvalidArgumentError"),
                    setChildProps(m, this.rootRef, newProps, NoProps))
     ELSE Left(Ok(this), setChildProps(m, this.rootRef, newProps, NoProps))

setProps(this, m, newProps, callback) ==
  LET r == isRoot(m, this)
  IN IF r.err # "none" THEN Left(r, m)
     ELSE IF Falsy(r.ret) THEN Left(Throw("RootRequiredError"), m)
     ELSE IF callback # Undef /\ callback.k # "function"
          THEN Left(Throw("InvalidArgumentError"), m)
     ELSE Left(Ok(this), setChildProps(m, this.rootRef, newProps, NoProps))

setState(this, m, newState, callback) ==
  LET r == isRoot(m, this)
      i == instance(this, m)
  IN IF r.err # "none" THEN Left(r, m)
     ELSE IF Falsy(r.ret) THEN Left(Throw("RootRequiredError"), m)
     ELSE IF callback # Undef /\ callback.k # "function"
          THEN Left(Throw("InvalidArgumentError"), m)
     ELSE IF i.err # "none" THEN Left(i, m)
     ELSE IF ~(i.ret.k = "component" /\ i.ret.of = "Foo")
          THEN Left(Throw("TypeError"), m)
     ELSE IF ~(m.live /\ GenOf(i.ret.path) = m.gen) THEN Left(Ok(this), m)
     ELSE Left(Ok(this), [m EXCEPT !.state = Hash(Merge(@.of, newState)),
                                   !.renders = @ + 1])

setContext(this, m, newContext) ==
  LET r == isRoot(m, this)
  IN IF r.err # "none" THEN Left(r, m)
     ELSE IF Falsy(r.ret) THEN Left(Throw("RootRequiredError"), m)
     ELSE IF Falsy(Get(ParentOf(m, this.instances[1]).props, "context"))
          THEN Left(Throw("ContextOptionRequiredError"), m)
     ELSE Left(Ok(this), setChildProps(m, this.rootRef, NoProps, newContext))

\* the state a component starts with: Foo counts from 0
InitialState(el) ==
  IF el.type = "Foo" THEN Hash(Props1("count", Num(0))) ELSE Undef

\* what a torn-down tree leaves behind
Torn(m) ==
  [el |-> m.el, optContext |-> m.optContext, context |-> m.context,
   state |-> m.state, rootRef |-> m.rootRef, gen |-> m.gen]

\* ReactDOM.render of createWrappedElement(el, context, options): a new
\* WrapperComponent instance and a new tree
FreshRender(m, el, ctx) ==
  [el |-> el, optContext |-> ctx, context |-> ctx, state |-> InitialState(el),
   rootRef |-> RootRef(m.gen + 1), gen |-> m.gen + 1, live |-> TRUE,
   past |-> Append(m.past, Torn(m)), renders |-> m.renders + 1]

\* how often render invokes the callback it is given: once if it is a function
Invoked(callback) == B2N(callback.k = "function")

\* variant: render never looks at the instance it holds
render_alwaysFresh(m, rdr, el, ctx, callback) ==
  [out |-> Ok(RootRef(m.gen + 1)), m |-> FreshRender(m, el, Hash(ctx)),
   rdr |-> [instance |-> RootRef(m.gen + 1)], calls |-> Invoked(callback)]

\* the renderer's render(el, context, callback): a fresh render when it holds
\* no instance, else setChildProps on the instance it holds; el.type and
\* el.props are read, a TypeError when el is undefined
render(m, rdr, el, ctx, callback) ==
  IF el = Undef THEN [out |-> Throw("TypeError"), m |-> m, rdr |-> rdr, calls |-> 0]
  ELSE IF rdr.instance = Null
  THEN [out |-> Ok(RootRef(m.gen + 1)), m |-> FreshRender(m, el, Hash(ctx)),
        rdr |-> [instance |-> RootRef(m.gen + 1)], calls |-> Invoked(callback)]
  ELSE [out |-> Ok(rdr.instance), m |-> setChildProps(m, rdr.instance, el.props, ctx),
        rdr |-> rdr, calls |-> Invoked(callback)]

\* variant: unmount leaves the instance in the renderer
rendererUnmount_keepInstance(m, rdr) ==
  [out |-> Ok(Undef), m |-> [m EXCEPT !.live = FALSE], rdr |-> rdr]

\* the renderer's unmount()
rendererUnmount(m, rdr) ==
  [out |-> Ok(Undef), m |-> [m EXCEPT !.live = FALSE], rdr |-> [instance |-> Null]]

Stays(out, m, rdr) == [out |-> out, m |-> m, rdr |-> rdr]

mount(this, m, rdr) ==
  LET r == isRoot(m, this)
      rendered == render(m, rdr, this.rootElement, NoProps, Undef)
  IN IF r.err # "none" THEN Stays(r, m, rdr)
     ELSE IF Falsy(r.ret) THEN Stays(Throw("RootRequiredError"), m, rdr)
     ELSE IF rendered.out.err # "none" THEN rendered
     ELSE [rendered EXCEPT !.out = Ok(this)]

unmount(this, m, rdr) ==
  LET r == isRoot(m, this)
  IN IF r.err # "none" THEN Stays(r, m, rdr)
     ELSE IF Falsy(r.ret) THEN Stays(Throw("RootRequiredError"), m, rdr)
     ELSE IF this.length # 1 THEN Stays(Throw("SingleNodeRequiredError"), m, rdr)
     ELSE [rendererUnmount(m, rdr) EXCEPT !.out = Ok(this)]

\* rootRef.forceUpdate()
update(this, m) ==
  LET r == isRoot(m, this)
  IN IF r.err # "none" THEN Left(r, m)
     ELSE IF Falsy(r.ret) THEN Left(Throw("RootRequiredError"), m)
     ELSE Left(Ok(Undef), IF Live(m, this.rootRef)
                          THEN [m EXCEPT !.renders = @ + 1] ELSE m)

\* the events TestUtils.Simulate knows; no element of the trees handles one
KnownEvents == {"click"}
simulateEvent(node, event) ==
  IF event \notin KnownEvents THEN Throw("UnknownEventError")
  ELSE IF node.k # "inst" THEN Throw("TypeError")
  ELSE Ok(Undef)

simulate(this, event) ==
  LET r == single(this, simulateEvent(At0(this.instances, 0), event))
  IN IF r.err # "none" THEN r ELSE Ok(this)

\* variant: a render makes a wrapper hold the nodes under the root again
Refresh_recapture(m, this) ==
  [this EXCEPT !.instances = RootInstance(m).children]

\* a ReactTestInstance reads its fiber when asked: after a render the nodes
\* a wrapper holds show the new props
Refresh(m, this) ==
  [this EXCEPT !.instances =
     [i \in 1..Len(@) |-> IF @[i].k = "inst" THEN NodeAt(m, @[i].path) ELSE @[i]]]

(***************************************************************************)
(* Specification of the wrapper: a test mounts a root element, walks the   *)
(* tree with the query methods, reads it with the accessors and changes it *)
(* with the root-only methods.                                             *)
(***************************************************************************)
MaxInstances == 3
MaxRenders == 2
MaxMounts == 2

R1 == Elem(31, "div", Props1("children", SpanHi))
R2 == Elem(32, "div", Props2("className", Str("foo bar"), "title", Str("x")))
R3 == Elem(33, "div", Props1("children", Arr(<<Str("Hi"), Span>>)))
R4 == Elem(34, "div", Props1("children", Arr(<<Span, B2>>)))
R5 == Elem(35, "Foo", Props1("title", Str("x")))
RootElements == {R1, R2, R3, R4, R5}
LightTheme == Hash(Props1("theme", Str("light")))
\* the mount calls of the test: the root element and its context option
MountCalls ==
  {[rootElement |-> r, optContext |-> Undef] : r \in RootElements}
  \cup {[rootElement |-> r, optContext |-> LightTheme] : r \in {R4, R5}}

FooBar == Elem(41, "div", Props1("className", Str("foo bar")))
FooBarMissing == Elem(42, "div", Props2("className", Str("foo bar"), "missing", Str("y")))
Expected == {SpanHi, SpanBye, Span, FooBar, FooBarMissing}

Selectors == {Str("span"), Str("div"), Str("b"), Hash(Props1("title", Str("x")))}
Callbacks == {Undef, Fun("callback"), Str("callback")}
PropNames == {"title", "children"}

\* mountWrapper(rootElement, {context})
InitWrapper ==
  /\ pc = "wrapper"
  /\ call = NoRes
  /\ res = NoRes
  /\ \E made \in MountCalls :
       /\ renderer = [instance |-> RootRef(1)]
       /\ mounted = [el |-> made.rootElement, optContext |-> made.optContext,
                     context |-> made.optContext,
                     state |-> InitialState(made.rootElement),
                     rootRef |-> RootRef(1), gen |-> 1, live |-> TRUE,
                     past |-> <<>>, renders |-> 1]
       /\ rootWrapper = ReactMountWrapper(RootInstance(mounted).children, RootRef(1),
                                          made.rootElement, RendererRef)
  /\ w = rootWrapper
  /\ lastCall = NoRes

\* a method that leaves the tree alone; the test keeps the wrapper it returns
Called(op, arg, out) ==
  /\ pc = "wrapper"
  /\ (out.err = "none" /\ out.ret.k = "wrapper") => out.ret.length <= MaxInstances
  /\ lastCall' = [op |-> op, recv |-> w, arg |-> arg, out |-> out, rerendered |-> FALSE]
  /\ w' = IF out.err = "none" /\ out.ret.k = "wrapper" THEN out.ret ELSE w
  /\ UNCHANGED <<pc, call, res, mounted, rootWrapper, renderer>>

\* a root-only method: the tree it leaves is the mounted tree
Changed(op, arg, left) ==
  /\ pc = "wrapper"
  /\ lastCall' = [op |-> op, recv |-> w, arg |-> arg, out |-> left.out,
                  rerendered |-> left.m.renders # mounted.renders,
                  was |-> renderer]
  /\ mounted' = left.m
  /\ w' = Refresh(left.m, w)
  /\ rootWrapper' = Refresh(left.m, rootWrapper)
  /\ renderer' = IF "rdr" \in DOMAIN left THEN left.rdr ELSE renderer
  /\ UNCHANGED <<pc, call, res>>

At == \E index \in 0..2 : Called("at", <<Num(index)>>, at(w, index))
First == Called("first", <<>>, first(w))
Last == Called("last", <<>>, last(w))
Children ==
  \E selector \in Selectors \cup {Undef} :
    Called("children", <<selector>>, children(w, selector))
Parent == Called("parent", <<>>, parent(w, mounted))
Filter == \E selector \in Selectors : Called("filter", <<selector>>, filter(w, selector))

Props == Called("props", <<>>, props(w))
Prop == \E propName \in PropNames : Called("prop", <<Str(propName)>>, prop(w, propName))
State ==
  \E propName \in {Undef, Str("count")} :
    Called("state", <<propName>>, state(w, mounted, propName))
Context ==
  \E propName \in {Undef, Str("theme")} :
    Called("context", <<propName>>, context(w, mounted, propName))
Instance == Called("instance", <<>>, instance(w, mounted))
Type == Called("type", <<>>, type(w))
Key == Called("key", <<>>, key(w))
Name == Called("name", <<>>, name(w))

Contains == \E node \in Expected : Called("contains", <<node>>, contains(w, node))
ContainsMatchingElement ==
  \E node \in Expected :
    Called("containsMatchingElement", <<node>>, containsMatchingElement(w, node))

ExpectedLists == {Arr(<<>>), Arr(<<FooBar>>), Arr(<<Span, FooBarMissing>>), FooBar, Undef}
ContainsAllMatchingElements ==
  \E nodes \in ExpectedLists :
    Called("containsAllMatchingElements", <<nodes>>,
           containsAllMatchingElements(w, nodes))
ContainsAnyMatchingElements ==
  \E nodes \in ExpectedLists :
    Called("containsAnyMatchingElements", <<nodes>>,
           containsAnyMatchingElements(w, nodes))

SetProps ==
  \E newProps \in {NoProps, Props1("title", Str("y"))}, callback \in Callbacks :
    /\ mounted.renders < MaxRenders
    /\ Changed("setProps", <<Hash(newProps), callback>>,
            setProps(w, mounted, newProps, callback))
SetState ==
  \E callback \in Callbacks :
    /\ mounted.renders < MaxRenders
    /\ Changed("setState", <<Hash(Props1("count", Num(1))), callback>>,
            setState(w, mounted, Props1("count", Num(1)), callback))
SetContext ==
  /\ mounted.renders < MaxRenders
  /\ Changed("setContext", <<Hash(Props1("theme", Str("dark")))>>,
          setContext(w, mounted, Props1("theme", Str("dark"))))

Mount ==
  /\ IF renderer.instance = Null THEN mounted.gen < MaxMounts
     ELSE mounted.renders < MaxRenders
  /\ Changed("mount", <<>>, mount(w, mounted, renderer))
Unmount == Changed("unmount", <<>>, unmount(w, mounted, renderer))
Update ==
  /\ mounted.renders < MaxRenders
  /\ Changed("update", <<>>, update(w, mounted))
Simulate ==
  \E event \in {"click", "bogus"} :
    Called("simulate", <<Str(event)>>, simulate(w, event))

(***************************************************************************)
(* Combinators: the caller's function is handed single-node wrappers       *)
(***************************************************************************)
\* a function of the test, called with (wrapper, index) or with
\* (accumulator, wrapper, index): it returns the index, returns its first
\* argument, answers false, or asks the wrapper it is handed for its type
CallFn(fn, args) ==
  IF fn.k = "index" THEN Ok(args[Len(args)])
  ELSE IF fn.k = "keep" THEN Ok(args[1])
  ELSE IF fn.k = "never" THEN Ok(False)
  ELSE CallOnWrapper(fn, args[Len(args) - 1])

\* one invocation of the caller's function, as the test observes it
Invocation(args, out) == [args |-> args, out |-> out]
\* the arguments of (n, i) => fn.call(this, this.wrap([n]), i); i counts from 1
NodeArgs(this, i) == <<wrap(this, <<this.instances[i]>>), Num(i - 1)>>

\* Array.prototype.map / forEach over this.instances from element i on
RECURSIVE ArrayMap(_, _, _)
ArrayMap(this, fn, i) ==
  IF i > this.length THEN [out |-> Ok(Arr(<<>>)), calls |-> <<>>]
  ELSE LET r == CallFn(fn, NodeArgs(this, i))
           rest == ArrayMap(this, fn, i + 1)
           made == <<Invocation(NodeArgs(this, i), r)>>
       IN IF r.err # "none" THEN [out |-> r, calls |-> made]
          ELSE [out |-> IF rest.out.err # "none" THEN rest.out
                        ELSE Ok(Arr(<<r.ret>> \o rest.out.ret.items)),
                calls |-> made \o rest.calls]

map(this, fn) == ArrayMap(this, fn, 1)

forEach(this, fn) ==
  LET run == ArrayMap(this, fn, 1)
  IN [out |-> IF run.out.err # "none" THEN run.out ELSE Ok(this), calls |-> run.calls]

\* Array.prototype.some / every: stop at the first truthy / falsy answer
RECURSIVE ArrayUntil(_, _, _, _)
ArrayUntil(this, fn, i, stopOn) ==
  IF i > this.length THEN [out |-> Ok(Bool(~stopOn)), calls |-> <<>>]
  ELSE LET r == CallFn(fn, NodeArgs(this, i))
           rest == ArrayUntil(this, fn, i + 1, stopOn)
           made == <<Invocation(NodeArgs(this, i), r)>>
       IN IF r.err # "none" THEN [out |-> r, calls |-> made]
          ELSE IF Falsy(r.ret) # stopOn THEN [out |-> Ok(Bool(stopOn)), calls |-> made]
          ELSE [out |-> rest.out, calls |-> made \o rest.calls]

someWhere(this, predicate) == ArrayUntil(this, predicate, 1, TRUE)
everyWhere(this, predicate) == ArrayUntil(this, predicate, 1, FALSE)

\* Array.prototype.reduce (step 1) / reduceRight (step -1) from element i on;
\* bare: the call had no initial value, and the callback wraps the
\* accumulator when the index is 1
RECURSIVE ArrayReduce(_, _, _, _, _, _)
ArrayReduce(this, fn, i, step, accum, bare) ==
  IF i < 1 \/ i > this.length THEN [out |-> Ok(accum), calls |-> <<>>]
  ELSE LET args == <<IF bare /\ i - 1 = 1 THEN wrap(this, <<accum>>) ELSE accum>>
                   \o NodeArgs(this, i)
           r == CallFn(fn, args)
           rest == ArrayReduce(this, fn, i + step, step, r.ret, bare)
           made == <<Invocation(args, r)>>
       IN IF r.err # "none" THEN [out |-> r, calls |-> made]
          ELSE [out |-> rest.out, calls |-> made \o rest.calls]

\* more: the arguments after fn (arguments.length > 1 iff there is one)
reduce(this, fn, more) ==
  IF Len(more) > 0 THEN ArrayReduce(this, fn, 1, 1, more[1], FALSE)
  ELSE IF this.length = 0 THEN [out |-> Throw("TypeError"), calls |-> <<>>]
  ELSE ArrayReduce(this, fn, 2, 1, this.instances[1], TRUE)

reduceRight(this, fn, more) ==
  IF Len(more) > 0 THEN ArrayReduce(this, fn, this.length, -1, more[1], FALSE)
  ELSE IF this.length = 0 THEN [out |-> Throw("TypeError"), calls |-> <<>>]
  ELSE ArrayReduce(this, fn, this.length - 1, -1, this.instances[this.length], TRUE)

WrapperPredicates == {[k |-> "typeIs", tag |-> "span"], [k |-> "always"]}
Slice ==
  \E begin \in 0..1, end \in {Undef, Num(1), Num(2)} :
    Called("slice", <<Num(begin), end>>, slice(w, begin, end))
Not == \E selector \in Selectors : Called("not", <<selector>>, not(w, selector))
HostNodes == Called("hostNodes", <<>>, hostNodes(w))
Is == \E selector \in Selectors : Called("is", <<selector>>, is(w, selector))
Parents ==
  \E selector \in Selectors \cup {Undef} :
    Called("parents", <<selector>>, parents(w, mounted, selector))
Closest ==
  \E selector \in Selectors :
    Called("closest", <<selector>>, closest(w, mounted, selector))
FilterWhere ==
  \E predicate \in WrapperPredicates :
    Called("filterWhere", <<predicate>>, filterWhere(w, predicate))
FindWhere ==
  \E predicate \in WrapperPredicates :
    Called("findWhere", <<predicate>>, findWhere(w, predicate))
IsRoot == Called("isRoot", <<>>, isRoot(mounted, w))
ChildAt == \E index \in 0..2 : Called("childAt", <<Num(index)>>, childAt(w, index))
Some == \E selector \in Selectors : Called("some", <<selector>>, some(w, mounted, selector))
Every == \E selector \in Selectors : Called("every", <<selector>>, every(w, selector))

\* a combinator: the test keeps what its function was handed
Handed(op, arg, run) ==
  /\ pc = "wrapper"
  /\ lastCall' = [op |-> op, recv |-> w, arg |-> arg, out |-> run.out,
                  rerendered |-> FALSE, calls |-> run.calls]
  /\ UNCHANGED <<pc, call, res, mounted, rootWrapper, w, renderer>>

Mappers == {[k |-> "index"], [k |-> "typeIs", tag |-> "span"]}
Reducers == {[k |-> "index"], [k |-> "keep"]}
Verdicts == {[k |-> "typeIs", tag |-> "span"], [k |-> "always"], [k |-> "never"]}
InitialValues == {<<>>, <<Str("init")>>}
Map == \E fn \in Mappers : Handed("map", <<fn>>, map(w, fn))
ForEach == \E fn \in Mappers : Handed("forEach", <<fn>>, forEach(w, fn))
Reduce ==
  \E fn \in Reducers, more \in InitialValues :
    Handed("reduce", <<fn>> \o more, reduce(w, fn, more))
ReduceRight ==
  \E fn \in Reducers, more \in InitialValues :
    Handed("reduceRight", <<fn>> \o more, reduceRight(w, fn, more))
SomeWhere ==
  \E predicate \in Verdicts : Handed("someWhere", <<predicate>>, someWhere(w, predicate))
EveryWhere ==
  \E predicate \in Verdicts : Handed("everyWhere", <<predicate>>, everyWhere(w, predicate))

\* the test goes back to the wrapper mountWrapper gave it
Reset ==
  /\ pc = "wrapper"
  /\ w # rootWrapper
  /\ w' = rootWrapper
  /\ UNCHANGED <<pc, call, res, mounted, rootWrapper, lastCall, renderer>>

Next ==
  \/ At \/ First \/ Last \/ Children \/ Parent \/ Filter
  \/ Props \/ Prop \/ State \/ Context \/ Instance \/ Type \/ Key \/ Name
  \/ Contains \/ ContainsMatchingElement
  \/ SetProps \/ SetState \/ SetContext
  \/ Reset

Spec == InitWrapper /\ [][Next]_vars

(***************************************************************************)
(* Specification of the life cycle: a test that mounts, unmounts, updates  *)
(* and changes the tree, and walks it to wrappers of other nodes.          *)
(***************************************************************************)
NextLifecycle ==
  \/ Mount \/ Unmount \/ Update \/ Simulate
  \/ SetProps \/ SetState \/ SetContext
  \/ First \/ Children \/ Parent
  \/ Reset

SpecLifecycle == InitWrapper /\ [][NextLifecycle]_vars

(***************************************************************************)
(* Specification of the queries: a test that walks and filters the tree.   *)
(***************************************************************************)
NextQuery ==
  \/ At \/ First \/ Last \/ Slice
  \/ Filter \/ Not \/ FilterWhere \/ FindWhere \/ HostNodes
  \/ Children \/ Parent \/ Parents \/ Closest
  \/ Is \/ IsRoot \/ ChildAt \/ Some \/ Every
  \/ Reset

SpecQuery == InitWrapper /\ [][NextQuery]_vars

(***************************************************************************)
(* Specification of the list checks: a test that asks a wrapper whether it *)
(* contains all or any of a list of elements.                              *)
(***************************************************************************)
NextMatching ==
  \/ ContainsAllMatchingElements \/ ContainsAnyMatchingElements
  \/ Children \/ Parent \/ At \/ Reset
SpecMatching == InitWrapper /\ [][NextMatching]_vars

(***************************************************************************)
(* Specification of the mount renderer: render and unmount called on the   *)
(* renderer createMountRenderer returned, after mountWrapper's first render.*)
(***************************************************************************)
\* a call on the renderer; the wrappers the test holds see the tree it leaves
OnRenderer(op, arg, left) ==
  /\ pc = "wrapper"
  /\ lastCall' = [op |-> op, recv |-> w, arg |-> arg, out |-> left.out,
                  rerendered |-> left.m.renders # mounted.renders,
                  was |-> renderer, calls |-> left.calls]
  /\ mounted' = left.m
  /\ w' = Refresh(left.m, w)
  /\ rootWrapper' = Refresh(left.m, rootWrapper)
  /\ renderer' = left.rdr
  /\ UNCHANGED <<pc, call, res>>

RendererRender ==
  \E el \in {R2, R5}, callback \in {Undef, Fun("callback")} :
    /\ IF renderer.instance = Null THEN mounted.gen < MaxMounts
       ELSE mounted.renders < MaxRenders + mounted.gen - 1
    /\ OnRenderer("render", <<el, Hash(NoProps), callback>>,
                  render(mounted, renderer, el, NoProps, callback))

\* unmount takes no callback
RendererUnmount ==
  \E left \in {rendererUnmount(mounted, renderer)} :
    OnRenderer("unmount", <<>>,
               [out |-> left.out, m |-> left.m, rdr |-> left.rdr, calls |-> 0])

NextRenderer == RendererRender \/ RendererUnmount
SpecRenderer == InitWrapper /\ [][NextRenderer]_vars

NextCombinators ==
  \/ Map \/ ForEach \/ Reduce \/ ReduceRight \/ SomeWhere \/ EveryWhere
  \/ Children \/ Parent \/ First \/ FindWhere \/ Reset
SpecCombinators == InitWrapper /\ [][NextCombinators]_vars

(***************************************************************************)
(* Properties of the wrapper.                                              *)
(***************************************************************************)
WasCalled(ops) == "op" \in DOMAIN lastCall /\ lastCall.op \in ops
Returned == lastCall.out.err = "none"
Threw(e) == lastCall.out.err = e

\* a wrapper is root iff its sole node's parent resolves to rootRef
SoleNodeUnderRootRef(m, this) ==
  /\ this.length = 1
  /\ this.instances[1].k = "inst"
  /\ ~Nullish(ParentOf(m, this.instances[1]))
  /\ InstanceOf(m, ParentOf(m, this.instances[1])) = this.rootRef

\* every node the wrapper holds is a node of the rendered tree
HoldsRenderedNodes(this) ==
  \A i \in 1..this.length : this.instances[i].k \in {"inst", "string", "number"}

\* C1: for every wrapper and every valid selector s, every node of filter(s)
\* satisfies buildPredicate(s), and the nodes of filter(s) are nodes of the
\* wrapper filter was called on.
C1_FilterSubsetSatisfying ==
  WasCalled({"filter"}) =>
    /\ Returned
    /\ \A i \in 1..lastCall.out.ret.length :
         /\ Call(buildPredicate(lastCall.arg[1]), lastCall.out.ret.instances[i])
         /\ \E j \in 1..lastCall.recv.length :
              lastCall.recv.instances[j] = lastCall.out.ret.instances[i]

C1_Witness ==
  /\ WasCalled({"filter"})
  /\ Returned
  /\ lastCall.recv.length = 2
  /\ lastCall.out.ret.length = 1
  /\ lastCall.out.ret.instances[1] \in {lastCall.recv.instances[j] : j \in 1..2}
  /\ Call(buildPredicate(lastCall.arg[1]), lastCall.out.ret.instances[1])

\* C5: setProps, setState and setContext called on a wrapper that is not root
\* (a descendant, an empty wrapper, several nodes, a node without parent)
\* always fail with RootRequiredError and trigger no re-render.
C5_SetOffRootRootRequired ==
  (WasCalled({"setProps", "setState", "setContext"})
     /\ ~SoleNodeUnderRootRef(mounted, lastCall.recv)) =>
    /\ Threw("RootRequiredError")
    /\ ~lastCall.rerendered

\* C6: props, prop, state, context, instance, type, key and name throw
\* SingleNodeRequiredError when the wrapper's length is 0 or at least 2, and
\* succeed when it is exactly 1 (state and context of a single node that is
\* not the root fail with RootRequiredError).
C6_SingleNodeAccessors ==
  WasCalled({"props", "prop", "state", "context", "instance", "type", "key", "name"}) =>
    IF lastCall.recv.length # 1 THEN Threw("SingleNodeRequiredError")
    ELSE IF lastCall.op \in {"state", "context"}
            /\ ~SoleNodeUnderRootRef(mounted, lastCall.recv)
         THEN Threw("RootRequiredError")
    ELSE Returned

\* C7: contains(e) returns true iff some node met in the pre-order traversal
\* of the subtrees of the wrapper's nodes, text leaves included, is nodeEqual
\* to the rendered e; in div > span > "Hi", contains(span "Hi") is true and
\* contains(span "Bye") is false.
C7_ContainsIffSomeNodeEqual ==
  (WasCalled({"contains"}) /\ HoldsRenderedNodes(lastCall.recv)) =>
    /\ lastCall.out =
         Ok(Bool(\E i \in 1..Len(PreOrderAll(lastCall.recv.instances)) :
                   nodeEqual(elementToInstance(lastCall.arg[1]).children[1],
                             PreOrderAll(lastCall.recv.instances)[i], LenIs)))
    /\ (mounted.el = R1 /\ lastCall.recv = rootWrapper) =>
         /\ lastCall.arg[1] = SpanHi => lastCall.out = Ok(True)
         /\ lastCall.arg[1] = SpanBye => lastCall.out = Ok(False)

\* C8: containsMatchingElement(e) returns true when some node of the wrapper's
\* subtrees matches e (same type, every non-null prop of e with an equal
\* value, matching children, extra props allowed) and false when none does;
\* on a rendered div with className and title, the div with className only
\* matches and the div with className and missing does not.
C8_ContainsMatchingElement ==
  (WasCalled({"containsMatchingElement"}) /\ HoldsRenderedNodes(lastCall.recv)) =>
    /\ lastCall.out =
         Ok(Bool(\E i \in 1..Len(PreOrderAll(lastCall.recv.instances)) :
                   nodeMatches(elementToInstance(lastCall.arg[1]).children[1],
                               PreOrderAll(lastCall.recv.instances)[i], LenLE)))
    /\ (mounted.el = R2 /\ lastCall.recv = rootWrapper) =>
         /\ lastCall.arg[1] = FooBar => lastCall.out = Ok(True)
         /\ lastCall.arg[1] = FooBarMissing => lastCall.out = Ok(False)

\* the wrapper mountWrapper returned: the one wrapper that holds the root
\* element
IsMountWrapper(this) == this.rootElement # Undef
SessionLive == mounted.live /\ renderer.instance = mounted.rootRef

\* C19: on the root wrapper unmount() tears down the renderer session and
\* mount() renders the original root element again: after a mount() or an
\* unmount() the session is live iff the call was mount(), only these two
\* calls start or end a session, and a mount() that follows unmount() is a
\* fresh render of the original root element, not an update of an instance.
C19_MountUnmountSession ==
  /\ [](WasCalled({"mount", "unmount"}) /\ IsMountWrapper(lastCall.recv) =>
          /\ Returned
          /\ SessionLive <=> lastCall.op = "mount"
          /\ (lastCall.op = "mount" /\ lastCall.was.instance = Null) =>
               /\ mounted.el = rootWrapper.rootElement
               /\ mounted.state = InitialState(rootWrapper.rootElement)
               /\ mounted.gen = Len(mounted.past) + 1
               /\ \A g \in 1..Len(mounted.past) :
                    mounted.past[g].rootRef # mounted.rootRef)
  /\ [][(SessionLive' # SessionLive) => lastCall'.op \in {"mount", "unmount"}]_vars

C19_Witness ==
  /\ WasCalled({"mount"})
  /\ IsMountWrapper(lastCall.recv)
  /\ lastCall.was.instance = Null
  /\ Returned
  /\ SessionLive
  /\ mounted.gen = 2
  /\ mounted.past[1].el # mounted.el
  /\ mounted.el = rootWrapper.rootElement

\* which nodes a wrapper holds, in order: a rendered node is the fiber at its
\* path, whatever the fiber holds now
NodeRefs(this) ==
  [i \in 1..Len(this.instances) |->
     IF this.instances[i].k = "inst"
     THEN [k |-> "inst", path |-> this.instances[i].path]
     ELSE this.instances[i]]
SameWrapper(before, after) ==
  /\ NodeRefs(after) = NodeRefs(before)
  /\ after.length = before.length
  /\ after.rootRef = before.rootRef
  /\ after.renderer = before.renderer
  /\ after.rootElement = before.rootElement
ReturnThis == {"setProps", "setState", "setContext", "mount", "unmount", "update",
               "simulate"}

C14_MatchingElementsNeedArray ==
  (WasCalled({"containsAllMatchingElements", "containsAnyMatchingElements"})
     /\ lastCall.arg[1].k # "array") =>
    Threw("InvalidArgumentError")

\* a callback was supplied and is not callable
BadCallback(args) == args[2] # Undef /\ args[2].k # "function"

\* C15: setProps(props, cb) and setState(state, cb) on a root wrapper with a
\* supplied cb that is not callable fail with InvalidArgumentError before any
\* re-render: props, state and the rendered tree are unchanged.
C15_BadCallbackBeforeRender ==
  [][(/\ lastCall' # lastCall
      /\ lastCall'.op \in {"setProps", "setState"}
      /\ SoleNodeUnderRootRef(mounted, w)
      /\ BadCallback(lastCall'.arg)) =>
       /\ lastCall'.out = Throw("InvalidArgumentError")
       /\ ~lastCall'.rerendered
       /\ mounted' = mounted
       /\ w' = w
       /\ rootWrapper' = rootWrapper]_vars

C15_Witness ==
  /\ WasCalled({"setState"})
  /\ SoleNodeUnderRootRef(mounted, lastCall.recv)
  /\ lastCall.recv.instances[1].type = "Foo"
  /\ BadCallback(lastCall.arg)
  /\ Threw("InvalidArgumentError")
  /\ mounted.renders = 1
  /\ mounted.state = InitialState(mounted.el)

QueryMethods ==
  {"at", "first", "last", "slice", "filter", "not", "filterWhere", "findWhere",
   "children", "parent", "parents", "hostNodes"}
Rejected(nodes, selector) ==
  LET rejects(node) == ~Call(buildPredicate(selector), node)
  IN SelectSeq(nodes, rejects)

\* C11: every query method returns a new wrapper whose rootRef and renderer
\* are those of the receiver; not(s) returns a wrapper holding exactly the
\* receiver's nodes that do not satisfy buildPredicate(s).
C11_QueriesReturnWrappers ==
  (WasCalled(QueryMethods) /\ Returned) =>
    /\ lastCall.out.ret.k = "wrapper"
    /\ lastCall.out.ret.rootRef = lastCall.recv.rootRef
    /\ lastCall.out.ret.renderer = lastCall.recv.renderer
    /\ lastCall.op = "not" =>
         lastCall.out.ret.instances = Rejected(lastCall.recv.instances, lastCall.arg[1])

\* C13: isRoot() is true iff the wrapper holds exactly one node and that
\* node's parent resolves to rootRef; it is false for an empty wrapper, for a
\* wrapper of several nodes and for a wrapper of a node whose parent is absent.
C13_IsRootDerived ==
  WasCalled({"isRoot"}) =>
    /\ Returned
    /\ IF SoleNodeUnderRootRef(mounted, lastCall.recv)
       THEN lastCall.out.ret = True
       ELSE Falsy(lastCall.out.ret)

\* the proper ancestors of a rendered node below the WrapperComponent, nearest
\* first
RECURSIVE Ancestors(_, _)
Ancestors(m, node) ==
  IF IsRootPath(node.path) \/ Len(node.path) = 1 THEN <<>>
  ELSE <<NodeAt(m, Front(node.path))>> \o Ancestors(m, NodeAt(m, Front(node.path)))
Accepted(nodes, selector) ==
  LET accepts(node) == Call(buildPredicate(selector), node)
  IN SelectSeq(nodes, accepts)
OnOneTreeNode ==
  /\ lastCall.recv.length = 1
  /\ lastCall.recv.instances[1].k \in {"inst", "string", "number"}

\* C17: parents() on a single-node wrapper of a tree node n returns exactly
\* the proper ancestors of n, nearest first, without n and without the node
\* bound to rootRef; the walk terminates for every node of the rendered
\* tree; parents(s) keeps exactly the ancestors satisfying s, in that order.
C17_ParentsAreAncestors ==
  (WasCalled({"parents"}) /\ OnOneTreeNode) =>
    /\ Returned
    /\ lastCall.recv.instances[1].k = "inst" =>
         lastCall.out.ret.instances =
           IF lastCall.arg[1] = Undef
           THEN Ancestors(mounted, lastCall.recv.instances[1])
           ELSE Accepted(Ancestors(mounted, lastCall.recv.instances[1]), lastCall.arg[1])

\* C18: closest(s) on a single-node wrapper returns the wrapper itself when
\* its node satisfies s, and otherwise a single-node wrapper of the nearest
\* proper ancestor below the root boundary that satisfies s.
C18_ClosestSelfOrAncestor ==
  (WasCalled({"closest"}) /\ OnOneTreeNode) =>
    /\ Returned
    /\ IF Call(buildPredicate(lastCall.arg[1]), lastCall.recv.instances[1])
       THEN lastCall.out.ret = lastCall.recv
       ELSE (/\ lastCall.recv.instances[1].k = "inst"
             /\ Accepted(Ancestors(mounted, lastCall.recv.instances[1]),
                         lastCall.arg[1]) # <<>>) =>
              lastCall.out.ret.instances =
                <<Head(Accepted(Ancestors(mounted, lastCall.recv.instances[1]),
                                lastCall.arg[1]))>>

Combinators == {"map", "forEach", "reduce", "reduceRight", "someWhere", "everyWhere"}
\* what the function was handed in its n-th invocation
HandedWrapper(n) == lastCall.calls[n].args[Len(lastCall.calls[n].args) - 1]
HandedIndex(n) == lastCall.calls[n].args[Len(lastCall.calls[n].args)].n
HandedAccumulator(n) == lastCall.calls[n].args[1]
NoInitialValue == WasCalled({"reduce", "reduceRight"}) /\ Len(lastCall.arg) = 1
\* the function is handed nodes as single-node wrappers with their index
NodesHandedWrapped ==
  \A n \in 1..Len(lastCall.calls) :
    /\ HandedIndex(n) \in 0..(lastCall.recv.length - 1)
    /\ HandedWrapper(n) = wrap(lastCall.recv, <<lastCall.recv.instances[HandedIndex(n) + 1]>>)
\* map and forEach that return have visited every node, in order
EveryNodeHanded ==
  (WasCalled({"map", "forEach"}) /\ Returned) =>
    /\ Len(lastCall.calls) = lastCall.recv.length
    /\ \A n \in 1..Len(lastCall.calls) : HandedIndex(n) = n - 1
\* without an initial value the accumulator starts as the wrapped end node
\* and is then the function's previous return value
AccumulatorChain ==
  (NoInitialValue /\ lastCall.recv.length >= 2) =>
    /\ Len(lastCall.calls) = lastCall.recv.length - 1
    /\ HandedAccumulator(1) =
         wrap(lastCall.recv,
              <<lastCall.recv.instances[IF lastCall.op = "reduce" THEN 1
                                        ELSE lastCall.recv.length]>>)
    /\ \A n \in 2..Len(lastCall.calls) :
         HandedAccumulator(n) = lastCall.calls[n - 1].out.ret

\* C16: map, forEach, reduce, reduceRight, someWhere and everyWhere hand the
\* caller's function every node as a single-node wrapper together with the
\* node's index; in reduce and reduceRight without an initial value, on a
\* wrapper of two or more nodes, the first accumulator is the single-node
\* wrapper of the first (reduceRight: last) node and every later accumulator
\* is the function's previous return value, unchanged.
C16_CombinatorsHandWrappers ==
  WasCalled(Combinators) =>
    /\ NodesHandedWrapped
    /\ EveryNodeHanded
    /\ AccumulatorChain

(***************************************************************************)
(* More properties of the comparator (under SpecCompare).                  *)
(***************************************************************************)
CompareCallDone == pc = "done" /\ call.fn \in {"nodeEqual", "nodeMatches"}
IsLooseCall == call.fn = "nodeMatches"
\* the simplified children sequence internalNodeCompare makes of a comparand
SimplifiedChildren(v) ==
  childrenToSimplifiedArray(
    Get(IF IsLooseCall THEN removeNullary(propsOfNode(v)) ELSE propsOfNode(v), "children"))
MinOf(x, y) == IF x <= y THEN x ELSE y
\* the comparison of two simplified sequences as it is described: the
\* lengths are admitted by equality (strict) or by the length comparator
\* (loose), and the elements are compared pairwise with the same comparator
ChildrenCompareAsDescribed(l, r, lenComp, isLoose) ==
  /\ IF isLoose THEN ApplyLenComp(lenComp, Len(l), Len(r)) ELSE Len(l) = Len(r)
  /\ \A i \in 1..MinOf(Len(l), Len(r)) :
       IF isLoose THEN nodeMatches(l[i], r[i], lenComp)
       ELSE nodeEqual(l[i], r[i], lenComp)

\* C21: when the simplified children sequences of a and b are compared,
\* strict mode requires equal lengths and loose mode admits the lengths
\* (m, n) exactly when the length comparator accepts (m, n); the elements
\* are compared pairwise, recursively, with the same comparator.
C21_ChildrenLengthsByComparator ==
  (CompareCallDone /\ call.a.k = "element" /\ call.b.k = "element") =>
    internalChildrenCompare(SimplifiedChildren(call.a), SimplifiedChildren(call.b),
                            call.lenComp, IsLooseCall)
      = ChildrenCompareAsDescribed(SimplifiedChildren(call.a), SimplifiedChildren(call.b),
                                   call.lenComp, IsLooseCall)

\* C22: for a textual comparand a, nodeEqual(a, b) and nodeMatches(a, b) are
\* true iff b is the identical value, whatever the length comparator.
C22_TextEqualOnlyIfIdentical ==
  (CompareCallDone /\ call.a.k \in {"string", "number"}) =>
    (res.ret = (call.a = call.b))

C22_Witness ==
  /\ CompareCallDone /\ call.fn = "nodeMatches" /\ call.lenComp = LenLE
  /\ call.a.k = "number" /\ call.b.k = "string"
  /\ ~Falsy(call.a) /\ ~Falsy(call.b)
  /\ call.a # call.b
  /\ res.ret = FALSE

\* C30: strict equality implies loose match: if nodeEqual(a, b) is true then
\* nodeMatches(a, b) is true, with the default length comparator and with
\* (a, b) => a <= b.
C30_StrictImpliesLoose ==
  (EqualCallDone /\ res.ret = TRUE) =>
    /\ nodeMatches(call.a, call.b, LenIs)
    /\ nodeMatches(call.a, call.b, LenLE)

(***************************************************************************)
(* More properties of the children normalisation (under SpecChildren).     *)
(***************************************************************************)
\* the kept children with every run of adjacent text/number children
\* replaced by the concatenation of the run's text
RECURSIVE ConcatRuns(_)
ConcatRuns(kept) ==
  IF kept = <<>> THEN <<>>
  ELSE LET rest == ConcatRuns(Tail(kept))
       IN IF rest # <<>> /\ Head(kept).k \in {"string", "number"}
                         /\ Head(rest).k \in {"string", "number"}
          THEN <<Str(ToText(Head(kept)) \o ToText(Head(rest)))>> \o Tail(rest)
          ELSE <<Head(kept)>> \o rest
KeptChildren(given) ==
  LET stays(el) == el \notin {Null, False, Undef}
  IN SelectSeq(IF given.k = "array" THEN given.items ELSE <<given>>, stays)
NoAdjacentText(s) ==
  \A i \in 1..(Len(s) - 1) :
    ~(s[i].k \in {"string", "number"} /\ s[i + 1].k \in {"string", "number"})
SimplifyCallDone == pc = "done" /\ call.fn = "childrenToSimplifiedArray"

\* C24: childrenToSimplifiedArray drops null, false and undefined children,
\* keeps the others in order and replaces every maximal run of adjacent
\* text/number children by the concatenation of the run's text (1 followed by
\* 2 gives "12"); its result never has two adjacent textual elements.
C24_TextRunsConcatenated ==
  SimplifyCallDone =>
    /\ res.ret = ConcatRuns(KeptChildren(call.c))
    /\ NoAdjacentText(res.ret)

(***************************************************************************)
(* Specification of the sub-array search: containsChildrenSubArray applied *)
(* to rendered nodes and lists of rendered nodes.                          *)
(***************************************************************************)
MaxRun == 3   \* most children of the node searched
MaxSub == 2   \* longest list searched for
SubArrayNodes ==
  {Render(DivOf(s), <<1>>) : s \in SeqsUpTo({Str("Hi"), B1, B2}, MaxRun)}
SubArrays ==
  {Render(DivOf(s), ArgPath).children : s \in SeqsUpTo({Str("Hi"), B1, B2}, MaxSub)}
SubArrayCalls ==
  {[fn |-> "containsChildrenSubArray", match |-> f, node |-> n, subArray |-> s] :
     f \in {"nodeEqual", "nodeMatches"}, n \in SubArrayNodes, s \in SubArrays}

InitSubArray ==
  /\ pc = "ready"
  /\ call \in SubArrayCalls
  /\ res = NoRes
  /\ WrapperIdle

ContainsChildrenSubArrayCall ==
  /\ pc = "ready"
  /\ call.fn = "containsChildrenSubArray"
  /\ res' = [ret |-> containsChildrenSubArray(call.match, call.node, call.subArray)]
  /\ pc' = "done"
  /\ UNCHANGED <<call, wrapperVars>>

NextSubArray == ContainsChildrenSubArrayCall

SpecSubArray == InitSubArray /\ [][NextSubArray]_vars

SubArrayCallDone == pc = "done" /\ call.fn = "containsChildrenSubArray"
\* subArray lies in full in kids from index i on, matching pairwise in order
RunAt(match, kids, i, subArray) ==
  /\ i + Len(subArray) <= Len(kids)
  /\ \A j \in 1..Len(subArray) : ApplyMatch(match, kids[i + j], subArray[j])

\* C23: containsChildrenSubArray(match, node, subArray) is true iff there is
\* an index i of node.children such that node.children[i .. i+len-1] exists in
\* full and match holds pairwise between it and subArray, in order; also when
\* subArray is empty or longer than node.children and when node.children is
\* empty.
C23_SubArrayIsContiguousRun ==
  SubArrayCallDone =>
    (res.ret = \E i \in 0..(Len(call.node.children) - 1) :
                 RunAt(call.match, call.node.children, i, call.subArray))

C23_Witness ==
  /\ SubArrayCallDone
  /\ Len(call.subArray) = 2
  /\ Len(call.node.children) = 3
  /\ ~RunAt(call.match, call.node.children, 0, call.subArray)
  /\ RunAt(call.match, call.node.children, 1, call.subArray)
  /\ res.ret = TRUE

(***************************************************************************)
(* More properties of the life cycle (under SpecLifecycle).                *)
(***************************************************************************)
\* C25: a wrapper produced by a query method carries the root element
\* description of the wrapper it was derived from, so mount() on a derived
\* wrapper that is root renders the original root element and returns.
C25_DerivedKeepsRootElement ==
  /\ (WasCalled(QueryMethods) /\ Returned /\ lastCall.out.ret.k = "wrapper") =>
       lastCall.out.ret.rootElement = lastCall.recv.rootElement
  /\ (WasCalled({"mount"}) /\ SoleNodeUnderRootRef(mounted, lastCall.recv)) =>
       /\ Returned
       /\ mounted.el.type = rootWrapper.rootElement.type

\* C26: whenever the session is live after root-only operations on the root
\* wrapper, the wrapper's rootRef is the handle of the renderer's live
\* session, so a following setProps, setContext or update that returns has
\* rendered the live tree again.
C26_RootRefIsLiveSession ==
  SessionLive =>
    /\ rootWrapper.rootRef = renderer.instance
    /\ (/\ WasCalled({"setProps", "setContext", "update"})
        /\ lastCall.recv = rootWrapper
        /\ Returned) => lastCall.rerendered

(***************************************************************************)
(* More properties of the queries (under SpecQuery).                       *)
(***************************************************************************)
Navigators ==
  {"at", "first", "last", "slice", "childAt", "children", "parent", "parents",
   "closest", "filter"}

\* C27: every wrapper reached from the root wrapper by at, first, last,
\* slice, childAt, children, parent, parents, closest and filter holds only
\* nodes of the rendered tree, never undefined or null: a call that finds no
\* node (an index out of range, first() or last() of an empty wrapper,
\* closest(s) without a match, parent() of a node without parent) yields a
\* wrapper of length 0.
C27_OnlyRenderedNodes ==
  (WasCalled(Navigators) /\ HoldsRenderedNodes(lastCall.recv) /\ Returned) =>
    /\ lastCall.out.ret.k = "wrapper"
    /\ HoldsRenderedNodes(lastCall.out.ret)

SatisfyingAt(this, selector) ==
  {i \in 1..this.length : Call(buildPredicate(selector), this.instances[i])}

\* C28: for every wrapper w, root or not, and every valid selector s,
\* w.some(s) returns without error and is true iff at least one node of w
\* satisfies buildPredicate(s); w.every(s) is true iff every node of w does.
C28_SomeEveryBySelector ==
  /\ WasCalled({"some"}) =>
       /\ Returned
       /\ lastCall.out.ret = Bool(SatisfyingAt(lastCall.recv, lastCall.arg[1]) # {})
  /\ WasCalled({"every"}) =>
       /\ Returned
       /\ lastCall.out.ret =
            Bool(SatisfyingAt(lastCall.recv, lastCall.arg[1]) = 1..lastCall.recv.length)

(***************************************************************************)
(* Properties of the mount renderer.                                       *)
(***************************************************************************)
\* the step is a render call on the renderer that returned
RenderStep ==
  /\ mounted' # mounted
  /\ lastCall'.op = "render"
  /\ lastCall'.out.err = "none"

\* a render that found no instance created one: a handle no session had
\* before, kept by the renderer, and a function callback invoked once
CreatedInstance ==
  /\ mounted'.gen = mounted.gen + 1
  /\ mounted'.live
  /\ lastCall'.out.ret = mounted'.rootRef
  /\ lastCall'.out.ret # mounted.rootRef
  /\ renderer'.instance = lastCall'.out.ret
  /\ lastCall'.calls = Invoked(lastCall'.arg[3])

\* a render that found an instance passed the element's props to it and
\* returned it: same session, same handle, the renderer as it was
UpdatedInstance ==
  /\ mounted'.gen = mounted.gen
  /\ mounted' = setChildProps(mounted, renderer.instance, lastCall'.arg[1].props, NoProps)
  /\ lastCall'.out.ret = renderer.instance
  /\ renderer' = renderer

\* the renderer holds an instance exactly while a session is live, and it is
\* that session's handle
OneLiveInstance ==
  /\ renderer.instance = Null <=> ~mounted.live
  /\ renderer.instance # Null => renderer.instance = mounted.rootRef

\* C29: the mount renderer holds at most one live instance: render creates
\* one only when it holds none and otherwise updates the one it holds through
\* setChildProps and returns that same handle, unmount leaves none, so the
\* renders between two unmounts return one handle; a function callback given
\* to the creating render is invoked exactly once
C29_OneInstancePerSession ==
  /\ []OneLiveInstance
  /\ [][RenderStep =>
          IF renderer.instance = Null THEN CreatedInstance ELSE UpdatedInstance]_vars
  /\ [][lastCall'.op = "unmount" => renderer'.instance = Null /\ ~mounted'.live]_vars
  /\ [][renderer'.instance # renderer.instance =>
          renderer.instance = Null \/ lastCall'.op = "unmount"]_vars

\* a second session was created by a render given a callback, after an
\* unmount, and the callback ran once
C29_Witness ==
  /\ WasCalled({"render"})
  /\ lastCall.was.instance = Null
  /\ lastCall.arg[3].k = "function"
  /\ lastCall.calls = 1
  /\ mounted.gen = 2
  /\ renderer.instance = lastCall.out.ret
====
